---- MODULE Spec2Model ----
(***************************************************************************)
(* Model of src/set.go: an ordered set kept as a red-black tree with       *)
(* parent pointers and nil leaves (no sentinel node).                      *)
(*                                                                         *)
(* The heap is the function nd from addresses to node records.  The node   *)
(* that Insert(x) allocates lives at address x; Nil (0) is the nil         *)
(* pointer.  A nil dereference is a Go run-time panic: the operation stops *)
(* where it is and the machine's ok flag goes FALSE.  A node that Remove   *)
(* unlinks is garbage: its cell is cleared when the operation returns.     *)
(***************************************************************************)
EXTENDS Integers, Sequences, FiniteSets

\* Element domain of the main specification.
MaxVal == 6
\* Element domain of the specification used for the height bound.
MaxValH == 8
MaxValRT == 10
MaxValQ == 4
MaxValT == 7

Nil == 0

red == TRUE
black == FALSE

Values == 1..MaxVal
ValuesH == 1..MaxValH
ValuesRT == 1..MaxValRT
ValuesQ == 1..MaxValQ
ValuesT == 1..MaxValT

\* var zero node: a cell no live pointer refers to.
NoNode == [value |-> 0, color |-> black, left |-> Nil, right |-> Nil, parent |-> Nil]

\* stat is what the last Insert or Remove did (rotations made, whether a
\* black node was removed, whether deleteFixup ran, whether a fix-up loop
\* failed to advance); obs is what the last query returned.
VARIABLES root, size, nd, panicked, lastOp, abs, stat, obs

vars == <<root, size, nd, panicked, lastOp, abs, stat, obs>>

\* The Set value the methods work on, with the flag that a panic clears and
\* the record of what the running operation has done so far.
Cur ==
    [nd |-> nd, root |-> root, size |-> size, ok |-> TRUE,
     rot |-> 0, blackRemoved |-> FALSE, fixupRan |-> FALSE, stuck |-> FALSE,
     moved |-> FALSE]

Panic(m) == [m EXCEPT !.ok = FALSE]

\* One call of leftRotate or rightRotate.
countRotation(m) == [m EXCEPT !.rot = @ + 1]

\* A fix-up loop went round without leaving and without moving its cursor
\* towards the root.
Stuck(m) == [m EXCEPT !.stuck = TRUE]

\* A fix-up loop went round again with its cursor nearer to the root.
Moved(m) == [m EXCEPT !.moved = TRUE]

StatOf(m) ==
    [rot |-> m.rot, blackRemoved |-> m.blackRemoved,
     fixupRan |-> m.fixupRan, stuck |-> m.stuck, moved |-> m.moved]

NoStat ==
    [rot |-> 0, blackRemoved |-> FALSE, fixupRan |-> FALSE, stuck |-> FALSE,
     moved |-> FALSE]

NoObs == [op |-> "none"]

SetColor(m, n, c) == [m EXCEPT !.nd[n].color = c]
SetLeft(m, n, v) == [m EXCEPT !.nd[n].left = v]
SetRight(m, n, v) == [m EXCEPT !.nd[n].right = v]
SetParent(m, n, v) == [m EXCEPT !.nd[n].parent = v]
SetRoot(m, v) == [m EXCEPT !.root = v]

\* Statements run in sequence: e is evaluated once, and F continues from its
\* value.
Do(e, F(_)) == CHOOSE r \in {F(v) : v \in {e}} : TRUE

\* Number of parent links from n up to the root.
RECURSIVE Depth(_, _)
Depth(m, n) ==
    IF m.nd[n].parent = Nil THEN 0 ELSE 1 + Depth(m, m.nd[n].parent)

----------------------------------------------------------------------------
\* Rotations.

leftRotate(m0, x) ==
    Do(m0, LAMBDA m :
    IF ~m.ok THEN m
    ELSE IF x = Nil THEN Panic(countRotation(m))
    ELSE LET y == m.nd[x].right IN
    IF y = Nil THEN Panic(countRotation(m))
    ELSE LET yl == m.nd[y].left
             xp == m.nd[x].parent
             m1 == SetRight(countRotation(m), x, yl)
             m2 == IF yl # Nil THEN SetParent(m1, yl, x) ELSE m1
             m3 == SetParent(m2, y, xp)
             m4 == IF xp = Nil THEN SetRoot(m3, y)
                   ELSE IF x = m3.nd[xp].left THEN SetLeft(m3, xp, y)
                   ELSE SetRight(m3, xp, y)
         IN SetParent(SetLeft(m4, y, x), x, y))

rightRotate(m0, x) ==
    Do(m0, LAMBDA m :
    IF ~m.ok THEN m
    ELSE IF x = Nil THEN Panic(countRotation(m))
    ELSE LET y == m.nd[x].left IN
    IF y = Nil THEN Panic(countRotation(m))
    ELSE LET yr == m.nd[y].right
             xp == m.nd[x].parent
             m1 == SetLeft(countRotation(m), x, yr)
             m2 == IF yr # Nil THEN SetParent(m1, yr, x) ELSE m1
             m3 == SetParent(m2, y, xp)
             m4 == IF xp = Nil THEN SetRoot(m3, y)
                   ELSE IF x = m3.nd[xp].right THEN SetRight(m3, xp, y)
                   ELSE SetLeft(m3, xp, y)
         IN SetParent(SetRight(m4, y, x), x, y))

----------------------------------------------------------------------------
\* Insert.

\* Lines 115-117 / 131-133: recolour parent and grandparent, rotate the
\* grandparent (to the right when the parent is a left child).
insertRecolorRight(m0, z) ==
    Do(m0, LAMBDA m :
    IF ~m.ok THEN m
    ELSE LET p == m.nd[z].parent IN
    IF p = Nil THEN Panic(m)
    ELSE LET m1 == SetColor(m, p, black)
             g == m1.nd[p].parent
         IN IF g = Nil THEN Panic(m1)
            ELSE rightRotate(SetColor(m1, g, red), g))

insertRecolorLeft_parentStaysRed(m0, z) ==
    Do(m0, LAMBDA m :
    IF ~m.ok THEN m
    ELSE LET p == m.nd[z].parent IN
    IF p = Nil THEN Panic(m)
    ELSE LET g == m.nd[p].parent
         IN IF g = Nil THEN Panic(m)
            ELSE leftRotate(SetColor(m, g, red), g))

insertRecolorLeft(m0, z) ==
    Do(m0, LAMBDA m :
    IF ~m.ok THEN m
    ELSE LET p == m.nd[z].parent IN
    IF p = Nil THEN Panic(m)
    ELSE LET m1 == SetColor(m, p, black)
             g == m1.nd[p].parent
         IN IF g = Nil THEN Panic(m1)
            ELSE leftRotate(SetColor(m1, g, red), g))

\* Lines 106-108 / 122-124, the uncle y is red: parent and uncle go black,
\* the grandparent goes red.
recolorUncleRed_keepParentRed(m, p, y, g) ==
    SetColor(SetColor(m, y, black), g, red)

recolorUncleRed(m, p, y, g) ==
    SetColor(SetColor(SetColor(m, p, black), y, black), g, red)

\* Line 102, the loop's condition.
insertContinues(m, z) ==
    LET p == m.nd[z].parent IN p # Nil /\ m.nd[p].color = red

RECURSIVE insertLoop(_, _)
insertLoop(m0, z) ==
    Do(m0, LAMBDA m :
    LET \* the next round of the loop, from heap e and cursor zz
        next(e, zz) ==
            Do(e, LAMBDA m1 :
               IF ~m1.ok THEN m1
               ELSE IF ~insertContinues(m1, zz) THEN insertLoop(m1, zz)
               ELSE IF Depth(m1, zz) >= Depth(m, z)
               THEN insertLoop(Stuck(m1), zz)
               ELSE insertLoop(Moved(m1), zz))
    IN
    IF ~m.ok THEN m
    ELSE IF ~insertContinues(m, z) THEN m
    ELSE LET p == m.nd[z].parent
             g == m.nd[p].parent IN
    IF g = Nil THEN Panic(m)
    ELSE IF p = m.nd[g].left
    THEN LET y == m.nd[g].right IN
         IF y # Nil /\ m.nd[y].color = red
         THEN next(recolorUncleRed(m, p, y, g), g)
         ELSE IF z = m.nd[p].right
              THEN next(insertRecolorRight(leftRotate(m, p), p), p)
              ELSE next(insertRecolorRight(m, z), z)
    ELSE LET y == m.nd[g].left IN
         IF y # Nil /\ m.nd[y].color = red
         THEN next(recolorUncleRed(m, p, y, g), g)
         ELSE IF z = m.nd[p].left
              THEN next(insertRecolorLeft(rightRotate(m, p), p), p)
              ELSE next(insertRecolorLeft(m, z), z))

insertFixup_rootLeftRed(m0, z) ==
    Do(m0, LAMBDA m :
    insertLoop(m, z))

\* The loop, then line 137.
insertFixup(m0, z) ==
    Do(m0, LAMBDA m :
    Do(insertLoop(m, z), LAMBDA m1 :
       IF ~m1.ok THEN m1
       ELSE IF m1.root = Nil THEN Panic(m1)
       ELSE SetColor(m1, m1.root, black)))

\* The descent of lines 72-84: the node holding x (found), or the last node
\* visited (parent, Nil in an empty tree).
RECURSIVE insertDescend(_, _, _, _)
insertDescend(m, n, parent, x) ==
    IF n = Nil THEN [found |-> FALSE, parent |-> parent]
    ELSE IF x < m.nd[n].value THEN insertDescend(m, m.nd[n].left, n, x)
    ELSE IF x > m.nd[n].value THEN insertDescend(m, m.nd[n].right, n, x)
    ELSE [found |-> TRUE, parent |-> n]

\* Lines 87-94: hang newNode under parent, or make it the root.
attach_wrongSide(m, parent, newNode, x) ==
    IF parent = Nil THEN SetRoot(m, newNode)
    ELSE IF x < m.nd[parent].value THEN SetRight(m, parent, newNode)
    ELSE SetLeft(m, parent, newNode)

attach(m, parent, newNode, x) ==
    IF parent = Nil THEN SetRoot(m, newNode)
    ELSE IF x < m.nd[parent].value THEN SetLeft(m, parent, newNode)
    ELSE SetRight(m, parent, newNode)

\* Line 97.
incSize_forgotten(m) == m

incSize(m) == [m EXCEPT !.size = @ + 1]

\* Lines 80-83: the element is already in the set.
insertPresent_countsAgain(m) == incSize(m)

insertPresent(m) == m

InsertOp(m, x) ==
    LET d == insertDescend(m, m.root, Nil, x) IN
    IF d.found THEN insertPresent(m)
    ELSE LET parent == d.parent
             newNode == x
             m1 == [m EXCEPT !.nd[newNode] =
                       [value |-> x, color |-> red, left |-> Nil,
                        right |-> Nil, parent |-> parent]]
             m2 == attach(m1, parent, newNode, x)
             m3 == insertFixup(m2, newNode)
         IN IF ~m3.ok THEN m3 ELSE incSize(m3)

----------------------------------------------------------------------------
\* Lookup.

\* The descent shared by Contains (lines 56-66) and Remove (lines 178-188):
\* the node holding x, or Nil.
RECURSIVE findNode_alwaysLeft(_, _, _)
findNode_alwaysLeft(m, n, x) ==
    IF n = Nil THEN Nil
    ELSE IF x < m.nd[n].value THEN findNode_alwaysLeft(m, m.nd[n].left, x)
    ELSE IF x > m.nd[n].value THEN findNode_alwaysLeft(m, m.nd[n].left, x)
    ELSE n

RECURSIVE findNode(_, _, _)
findNode(m, n, x) ==
    IF n = Nil THEN Nil
    ELSE IF x < m.nd[n].value THEN findNode(m, m.nd[n].left, x)
    ELSE IF x > m.nd[n].value THEN findNode(m, m.nd[n].right, x)
    ELSE n

Contains(m, x) == findNode(m, m.root, x) # Nil

\* Len (lines 50-52).
SetLen(m) == m.size

RECURSIVE minNode(_, _)
minNode(m, n) ==
    IF m.nd[n].left # Nil THEN minNode(m, m.nd[n].left) ELSE n

RECURSIVE maxNode_goesLeft(_, _)
maxNode_goesLeft(m, n) ==
    IF m.nd[n].left # Nil THEN maxNode_goesLeft(m, m.nd[n].left) ELSE n

RECURSIVE maxNode(_, _)
maxNode(m, n) ==
    IF m.nd[n].right # Nil THEN maxNode(m, m.nd[n].right) ELSE n

\* The zero value of the element type, returned with found = FALSE.
ZeroValue == 0

\* Min and Max (lines 306-323): the value and the presence flag.
Min(m) ==
    IF m.root = Nil THEN [value |-> ZeroValue, found |-> FALSE]
    ELSE [value |-> m.nd[minNode(m, m.root)].value, found |-> TRUE]

Max(m) ==
    IF m.root = Nil THEN [value |-> ZeroValue, found |-> FALSE]
    ELSE [value |-> m.nd[maxNode(m, m.root)].value, found |-> TRUE]

----------------------------------------------------------------------------
\* Remove.

rbTransplant_alwaysLeft(m0, u, v) ==
    Do(m0, LAMBDA m :
    IF ~m.ok THEN m
    ELSE LET up == m.nd[u].parent
             m1 == IF up = Nil THEN SetRoot(m, v)
                   ELSE SetLeft(m, up, v)
         IN IF v # Nil THEN SetParent(m1, v, up) ELSE m1)

rbTransplant_parentNotSet(m0, u, v) ==
    Do(m0, LAMBDA m :
    IF ~m.ok THEN m
    ELSE LET up == m.nd[u].parent
         IN IF up = Nil THEN SetRoot(m, v)
            ELSE IF u = m.nd[up].left THEN SetLeft(m, up, v)
            ELSE SetRight(m, up, v))

\* Lines 228-239.
rbTransplant(m0, u, v) ==
    Do(m0, LAMBDA m :
    IF ~m.ok THEN m
    ELSE LET up == m.nd[u].parent
             m1 == IF up = Nil THEN SetRoot(m, v)
                   ELSE IF u = m.nd[up].left THEN SetLeft(m, up, v)
                   ELSE SetRight(m, up, v)
         IN IF v # Nil THEN SetParent(m1, v, up) ELSE m1)

\* Lines 270 / 298: x = s.root, which ends the loop.
cursorToRoot_stays(m, x) == x

cursorToRoot(m, x) == m.root

\* Lines 264-270: w takes the parent's colour, the parent and w's right child
\* go black, the parent is rotated left, and the cursor becomes the root.
deleteFarLeft(m0, x) ==
    Do(m0, LAMBDA m :
    IF ~m.ok THEN [m |-> m, x |-> x]
    ELSE LET xp == m.nd[x].parent
             w == m.nd[xp].right
         IN IF w = Nil THEN [m |-> Panic(m), x |-> x]
            ELSE LET m1 == SetColor(SetColor(m, w, m.nd[xp].color), xp, black)
                     wr == m1.nd[w].right
                     m2 == IF wr # Nil THEN SetColor(m1, wr, black) ELSE m1
                     m3 == leftRotate(m2, xp)
                 IN [m |-> m3, x |-> cursorToRoot(m3, x)])

\* Lines 292-298, the mirror image.
deleteFarRight(m0, x) ==
    Do(m0, LAMBDA m :
    IF ~m.ok THEN [m |-> m, x |-> x]
    ELSE LET xp == m.nd[x].parent
             w == m.nd[xp].left
         IN IF w = Nil THEN [m |-> Panic(m), x |-> x]
            ELSE LET m1 == SetColor(SetColor(m, w, m.nd[xp].color), xp, black)
                     wl == m1.nd[w].left
                     m2 == IF wl # Nil THEN SetColor(m1, wl, black) ELSE m1
                     m3 == rightRotate(m2, xp)
                 IN [m |-> m3, x |-> cursorToRoot(m3, x)])

\* Lines 252-271 once the sibling w is known to be black (or was made so).
deleteBlackSiblingLeft(m0, x) ==
    Do(m0, LAMBDA m :
    IF ~m.ok THEN [m |-> m, x |-> x]
    ELSE LET xp == m.nd[x].parent
             w == m.nd[xp].right
         IN IF w = Nil THEN [m |-> Panic(m), x |-> x]
            ELSE LET wl == m.nd[w].left
                     wr == m.nd[w].right
                 IN IF (wl = Nil \/ m.nd[wl].color = black)
                       /\ (wr = Nil \/ m.nd[wr].color = black)
                    THEN [m |-> SetColor(m, w, red), x |-> xp]
                    ELSE IF wr = Nil \/ m.nd[wr].color = black
                    THEN LET m1 == IF wl # Nil THEN SetColor(m, wl, black) ELSE m
                             m2 == rightRotate(SetColor(m1, w, red), w)
                         IN deleteFarLeft(m2, x)
                    ELSE deleteFarLeft(m, x))

\* Lines 280-299, the mirror image.
deleteBlackSiblingRight(m0, x) ==
    Do(m0, LAMBDA m :
    IF ~m.ok THEN [m |-> m, x |-> x]
    ELSE LET xp == m.nd[x].parent
             w == m.nd[xp].left
         IN IF w = Nil THEN [m |-> Panic(m), x |-> x]
            ELSE LET wl == m.nd[w].left
                     wr == m.nd[w].right
                 IN IF (wr = Nil \/ m.nd[wr].color = black)
                       /\ (wl = Nil \/ m.nd[wl].color = black)
                    THEN [m |-> SetColor(m, w, red), x |-> xp]
                    ELSE IF wl = Nil \/ m.nd[wl].color = black
                    THEN LET m1 == IF wr # Nil THEN SetColor(m, wr, black) ELSE m
                             m2 == leftRotate(SetColor(m1, w, red), w)
                         IN deleteFarRight(m2, x)
                    ELSE deleteFarRight(m, x))

\* Lines 247-248 / 275-276, the sibling w is red: it goes black and the
\* parent goes red.
recolorRedSibling_parentStaysBlack(m, w, xp) ==
    SetColor(m, w, black)

recolorRedSibling(m, w, xp) ==
    SetColor(SetColor(m, w, black), xp, red)

\* One iteration of the loop of lines 243-301: the new heap and cursor.
deleteFixupStep(m0, x) ==
    Do(m0, LAMBDA m :
    LET xp == m.nd[x].parent IN
    IF xp = Nil THEN [m |-> Panic(m), x |-> x]
    ELSE IF x = m.nd[xp].left
    THEN LET w == m.nd[xp].right IN
         IF w = Nil THEN [m |-> Panic(m), x |-> x]
         ELSE IF m.nd[w].color = red
         THEN deleteBlackSiblingLeft(
                  leftRotate(recolorRedSibling(m, w, xp), xp), x)
         ELSE deleteBlackSiblingLeft(m, x)
    ELSE LET w == m.nd[xp].left IN
         IF w = Nil THEN [m |-> Panic(m), x |-> x]
         ELSE IF m.nd[w].color = red
         THEN deleteBlackSiblingRight(
                  rightRotate(recolorRedSibling(m, w, xp), xp), x)
         ELSE deleteBlackSiblingRight(m, x))

\* Line 243, the loop's condition.
deleteContinues(m, x) == x # m.root /\ m.nd[x].color = black

RECURSIVE deleteLoop(_, _)
deleteLoop(m0, x) ==
    Do(m0, LAMBDA m :
    IF ~m.ok THEN m
    ELSE IF x = Nil THEN Panic(m)
    ELSE IF deleteContinues(m, x)
    THEN Do(deleteFixupStep(m, x), LAMBDA r :
            IF ~r.m.ok THEN r.m
            ELSE IF r.x = Nil \/ ~deleteContinues(r.m, r.x)
            THEN deleteLoop(r.m, r.x)
            ELSE IF Depth(r.m, r.x) >= Depth(m, x)
            THEN deleteLoop(Stuck(r.m), r.x)
            ELSE deleteLoop(Moved(r.m), r.x))
    ELSE SetColor(m, x, black))

deleteFixup(m0, x) ==
    Do(m0, LAMBDA m :
    deleteLoop([m EXCEPT !.fixupRan = TRUE], x))

\* Lines 203-219: z has two children; its successor y takes its place.
deleteTwoChildren(m0, z) ==
    Do(m0, LAMBDA m :
    LET y == minNode(m, m.nd[z].right)
        x == m.nd[y].right
        m1 == IF m.nd[y].parent = z
              THEN IF x # Nil THEN SetParent(m, x, y) ELSE m
              ELSE LET t == rbTransplant(m, y, m.nd[y].right)
                       zr == t.nd[z].right
                   IN IF zr = Nil THEN Panic(SetRight(t, y, zr))
                      ELSE SetParent(SetRight(t, y, zr), zr, y)
        m2 == rbTransplant(m1, z, y)
        zl == m2.nd[z].left
    IN IF ~m2.ok THEN m2
       ELSE IF zl = Nil THEN Panic(SetLeft(m2, y, zl))
       ELSE SetColor(SetParent(SetLeft(m2, y, zl), zl, y), y, m2.nd[z].color))

\* Line 221.
decSize_forgotten(m) == m

decSize(m) == [m EXCEPT !.size = @ - 1]

deleteNode(m0, z) ==
    Do(m0, LAMBDA m :
    LET two == m.nd[z].left # Nil /\ m.nd[z].right # Nil
        y == IF two THEN minNode(m, m.nd[z].right) ELSE z
        originalColor == m.nd[y].color
        x == IF m.nd[z].left = Nil THEN m.nd[z].right
             ELSE IF m.nd[z].right = Nil THEN m.nd[z].left
             ELSE m.nd[y].right
        m1 == IF m.nd[z].left = Nil THEN rbTransplant(m, z, m.nd[z].right)
              ELSE IF m.nd[z].right = Nil THEN rbTransplant(m, z, m.nd[z].left)
              ELSE deleteTwoChildren(m, z)
    IN IF ~m1.ok THEN m1
       ELSE LET m2 == [decSize(m1) EXCEPT !.blackRemoved = (originalColor = black)]
                m3 == IF originalColor = black /\ x # Nil THEN deleteFixup(m2, x) ELSE m2
            IN \* z is unreachable from here on: its cell goes back to the heap
               IF m3.ok THEN [m3 EXCEPT !.nd[z] = NoNode] ELSE m3)

RemoveOp(m, x) ==
    LET z == findNode(m, m.root, x) IN
    IF z = Nil THEN m ELSE deleteNode(m, z)

----------------------------------------------------------------------------
\* The state machine.

Init ==
    /\ root = Nil
    /\ size = 0
    /\ nd = [a \in Values |-> NoNode]
    /\ panicked = FALSE
    /\ lastOp = "New"
    /\ abs = {}
    /\ stat = NoStat
    /\ obs = NoObs

Insert(x) ==
    /\ ~panicked
    /\ \E m \in {InsertOp(Cur, x)} :
       /\ root' = m.root
       /\ size' = m.size
       /\ nd' = m.nd
       /\ panicked' = ~m.ok
       /\ stat' = StatOf(m)
    /\ obs' = NoObs
    /\ lastOp' = IF insertDescend(Cur, root, Nil, x).found
                 THEN "InsertPresent" ELSE "InsertNew"
    /\ abs' = abs \cup {x}

Remove(x) ==
    /\ ~panicked
    /\ \E m \in {RemoveOp(Cur, x)} :
       /\ root' = m.root
       /\ size' = m.size
       /\ nd' = m.nd
       /\ panicked' = ~m.ok
       /\ stat' = StatOf(m)
    /\ obs' = NoObs
    /\ lastOp' = LET z == findNode(Cur, root, x) IN
                 IF z = Nil THEN "RemoveAbsent"
                 ELSE IF nd[z].left # Nil /\ nd[z].right # Nil THEN "RemoveSuccessor"
                 ELSE "RemoveSplice"
    /\ abs' = abs \ {x}

Next ==
    \/ \E x \in Values : Insert(x)
    \/ \E x \in Values : Remove(x)

Spec == Init /\ [][Next]_vars

\* The same machine over the larger element domain.
InitH ==
    /\ root = Nil
    /\ size = 0
    /\ nd = [a \in ValuesH |-> NoNode]
    /\ panicked = FALSE
    /\ lastOp = "New"
    /\ abs = {}
    /\ stat = NoStat
    /\ obs = NoObs

NextH ==
    \/ \E x \in ValuesH : Insert(x)
    \/ \E x \in ValuesH : Remove(x)

SpecH == InitH /\ [][NextH]_vars

\* Round trips: a fresh set, Inserts of pairwise different values in any
\* order, then Removes of exactly the values present, in any order.
InitRT ==
    /\ root = Nil
    /\ size = 0
    /\ nd = [a \in ValuesRT |-> NoNode]
    /\ panicked = FALSE
    /\ lastOp = "New"
    /\ abs = {}
    /\ stat = NoStat
    /\ obs = NoObs

InsertRT(x) ==
    /\ lastOp \in {"New", "InsertNew"}
    /\ x \notin abs
    /\ Insert(x)

RemoveRT(x) ==
    /\ x \in abs
    /\ Remove(x)

NextRT ==
    \/ \E x \in ValuesRT : InsertRT(x)
    \/ \E x \in ValuesRT : RemoveRT(x)

SpecRT == InitRT /\ [][NextRT]_vars

\* Line 341: floor(log2(a / b)) for positive integers a and b.
RECURSIVE FloorLog2(_, _)
FloorLog2(a, b) ==
    IF a < b THEN FloorLog2(2 * a, b) - 1
    ELSE IF a >= 2 * b THEN FloorLog2(a, 2 * b) + 1
    ELSE 0

\* Line 341: the capacity the stack is allocated with.
maxSize(m) == FloorLog2(m.size + 2, 5) + 2

\* The consumer of All stops at its k-th element (yield returns false); a k
\* above the number of elements is a consumer that never stops.
Limits == 1..(MaxValQ + 1)

\* Iterations of the loop of lines 344-356 a walk is followed for: each
\* iteration pushes one node or pops one, and a set of size nodes has each
\* pushed once and popped once.
WalkFuel(m) == 2 * m.size

\* Lines 346-347: stack = append(stack, n); n = n.left.
walkPush(w) ==
    [w EXCEPT !.stack = Append(@, w.n),
              !.n = w.m.nd[w.n].left,
              !.maxStack = IF Len(w.stack) + 1 > @ THEN Len(w.stack) + 1 ELSE @,
              !.steps = @ + 1]

\* Lines 349-351: n = stack[len(stack)-1]; stack = stack[:len(stack)-1];
\* yield(n.value).
walkPop_cutsLeft(w) ==
    LET top == w.stack[Len(w.stack)] IN
    [w EXCEPT !.n = top,
              !.stack = SubSeq(@, 1, Len(@) - 1),
              !.yielded = Append(@, w.m.nd[top].value),
              !.nodes = Append(@, top),
              !.m = SetLeft(@, top, Nil),
              !.steps = @ + 1]

walkPop(w) ==
    LET top == w.stack[Len(w.stack)] IN
    [w EXCEPT !.n = top,
              !.stack = SubSeq(@, 1, Len(@) - 1),
              !.yielded = Append(@, w.m.nd[top].value),
              !.nodes = Append(@, top),
              !.steps = @ + 1]

\* Line 354: n = n.right.
walkRight(w) == [w EXCEPT !.n = w.m.nd[w.n].right]

\* The loop of lines 344-356.
RECURSIVE walkLoop(_)
walkLoop(w0) ==
    Do(w0, LAMBDA w :
    IF Len(w.stack) = 0 /\ w.n = Nil THEN [w EXCEPT !.exhausted = TRUE]
    ELSE IF w.steps >= WalkFuel(w.m) THEN [w EXCEPT !.cut = TRUE]
    ELSE IF w.n # Nil THEN walkLoop(walkPush(w))
    ELSE Do(walkPop(w), LAMBDA w1 :
            IF Len(w1.yielded) = w1.limit THEN w1
            ELSE walkLoop(walkRight(w1))))

\* All (lines 339-358), run against a consumer that stops at its k-th
\* element.
AllOp(m, k) ==
    walkLoop([m |-> m, cap |-> maxSize(m), stack |-> <<>>, n |-> m.root,
              yielded |-> <<>>, nodes |-> <<>>, maxStack |-> 0, steps |-> 0,
              limit |-> k, exhausted |-> FALSE, cut |-> FALSE])

\* The set with its queries, over the element domain ValuesQ.
InitQ ==
    /\ root = Nil
    /\ size = 0
    /\ nd = [a \in ValuesQ |-> NoNode]
    /\ panicked = FALSE
    /\ lastOp = "New"
    /\ abs = {}
    /\ stat = NoStat
    /\ obs = NoObs

LenCall ==
    /\ ~panicked
    /\ obs' = [op |-> "Len", ret |-> SetLen(Cur)]
    /\ lastOp' = "Len"
    /\ UNCHANGED <<root, size, nd, panicked, abs, stat>>

ContainsCall(x) ==
    /\ ~panicked
    /\ obs' = [op |-> "Contains", arg |-> x, ret |-> Contains(Cur, x)]
    /\ lastOp' = "Contains"
    /\ UNCHANGED <<root, size, nd, panicked, abs, stat>>

MinCall ==
    /\ ~panicked
    /\ obs' = [op |-> "Min", ret |-> Min(Cur)]
    /\ lastOp' = "Min"
    /\ UNCHANGED <<root, size, nd, panicked, abs, stat>>

MaxCall ==
    /\ ~panicked
    /\ obs' = [op |-> "Max", ret |-> Max(Cur)]
    /\ lastOp' = "Max"
    /\ UNCHANGED <<root, size, nd, panicked, abs, stat>>

AllCall(k) ==
    /\ ~panicked
    /\ \E w \in {AllOp(Cur, k)} :
       /\ root' = w.m.root
       /\ size' = w.m.size
       /\ nd' = w.m.nd
       /\ obs' = [op |-> "All", limit |-> k, yielded |-> w.yielded,
                  nodes |-> w.nodes, maxStack |-> w.maxStack, cap |-> w.cap,
                  exhausted |-> w.exhausted, cut |-> w.cut]
    /\ lastOp' = "All"
    /\ UNCHANGED <<panicked, abs, stat>>

NextQ ==
    \/ \E x \in ValuesQ : Insert(x)
    \/ \E x \in ValuesQ : Remove(x)
    \/ LenCall
    \/ \E x \in ValuesQ : ContainsCall(x)
    \/ MinCall
    \/ MaxCall
    \/ \E k \in Limits : AllCall(k)

SpecQ == InitQ /\ [][NextQ]_vars

\* Inserts, Removes and traversals consumed to their end, over the element
\* domain ValuesT.
InitT ==
    /\ root = Nil
    /\ size = 0
    /\ nd = [a \in ValuesT |-> NoNode]
    /\ panicked = FALSE
    /\ lastOp = "New"
    /\ abs = {}
    /\ stat = NoStat
    /\ obs = NoObs

AllToEnd == AllCall(MaxValT + 1)

NextT ==
    \/ \E x \in ValuesT : Insert(x)
    \/ \E x \in ValuesT : Remove(x)
    \/ AllToEnd

SpecT == InitT /\ [][NextT]_vars

----------------------------------------------------------------------------
\* Observations of a state.

\* The full traversal of All (lines 339-358) from node n: the values in the
\* order the stack walk yields them (left spine, node, right subtree).
RECURSIVE InOrder(_)
InOrder(n) ==
    IF n = Nil THEN <<>>
    ELSE InOrder(nd[n].left) \o <<nd[n].value>> \o InOrder(nd[n].right)

All == InOrder(root)

RECURSIVE Reach(_)
Reach(n) ==
    IF n = Nil THEN {} ELSE {n} \cup Reach(nd[n].left) \cup Reach(nd[n].right)

SeqSet(q) == {q[i] : i \in 1..Len(q)}

----------------------------------------------------------------------------
\* Measures of the tree.

\* The numbers of black nodes met on the paths from n down to an absent child.
RECURSIVE PathBlacks(_)
PathBlacks(n) ==
    IF n = Nil THEN {0}
    ELSE {c + (IF nd[n].color = black THEN 1 ELSE 0) :
              c \in PathBlacks(nd[n].left) \cup PathBlacks(nd[n].right)}

\* Number of nodes on the longest path from n down to a leaf.
RECURSIVE Height(_)
Height(n) ==
    IF n = Nil THEN 0
    ELSE LET l == Height(nd[n].left)
             r == Height(nd[n].right)
         IN 1 + (IF l > r THEN l ELSE r)

StrictlyIncreasing(q) == \A i \in 1..(Len(q) - 1) : q[i] < q[i + 1]

IsRed(n) == n # Nil /\ nd[n].color = red

----------------------------------------------------------------------------
\* Claims.

\* C1: in every state reached by completed Inserts and Removes, all paths
\* from any node down to an absent child hold the same number of black nodes.
C1_BlackHeightBalance ==
    ~panicked => \A n \in Reach(root) : Cardinality(PathBlacks(n)) = 1

\* C2: Insert(x) on a tree representing S leaves a tree representing
\* S \cup {x}; Len is unchanged when x was in S and grows by exactly 1
\* otherwise.
C2_InsertRefines ==
    [][\A x \in DOMAIN nd :
          (Insert(x) /\ ~panicked') =>
              /\ SeqSet(All') = SeqSet(All) \cup {x}
              /\ size' = IF x \in SeqSet(All) THEN size ELSE size + 1]_vars

C2_Witness ==
    /\ ~panicked
    /\ lastOp = "InsertNew"
    /\ size >= 3
    /\ SeqSet(All) = abs

\* C3: a Remove(x) that returns, on a tree representing S, leaves a tree
\* representing S \ {x}; Len is unchanged when x was not in S and drops by
\* exactly 1 otherwise.
C3_RemoveRefines ==
    [][\A x \in DOMAIN nd :
          (Remove(x) /\ ~panicked') =>
              /\ SeqSet(All') = SeqSet(All) \ {x}
              /\ size' = IF x \in SeqSet(All) THEN size - 1 ELSE size]_vars

\* The successor was relinked into the removed node's place and the other
\* elements are still there.
C3_Witness ==
    /\ ~panicked
    /\ lastOp = "RemoveSuccessor"
    /\ size >= 3
    /\ SeqSet(All) = abs

\* C4: after completed Inserts and Removes every left subtree holds smaller
\* values and every right subtree larger values than the node, and the full
\* traversal is strictly increasing.
C4_BSTOrder ==
    ~panicked =>
        /\ \A n \in Reach(root) :
              /\ \A v \in SeqSet(InOrder(nd[n].left)) : v < nd[n].value
              /\ \A v \in SeqSet(InOrder(nd[n].right)) : v > nd[n].value
        /\ StrictlyIncreasing(All)

C4_Witness ==
    /\ ~panicked
    /\ lastOp = "RemoveSuccessor"
    /\ Len(All) >= 4
    /\ Height(root) >= 3

\* C5: no Insert or Remove panics.
C5_NoPanic == ~panicked

\* C6: size equals the number of nodes reachable from root, the number of
\* values the full traversal yields, and the number of values inserted and
\* not since removed.
C6_SizeCorrect ==
    ~panicked =>
        /\ SetLen(Cur) = Cardinality(Reach(root))
        /\ SetLen(Cur) = Len(All)
        /\ SetLen(Cur) = Cardinality(abs)

C6_Witness ==
    /\ ~panicked
    /\ lastOp \in {"RemoveSplice", "RemoveSuccessor"}
    /\ size >= 2
    /\ size < MaxVal

\* C7: Contains(x) is true exactly when the full traversal yields x.
C7_ContainsIffTraversed ==
    ~panicked => \A x \in DOMAIN nd : Contains(Cur, x) <=> x \in SeqSet(All)

C7_Witness ==
    /\ ~panicked
    /\ Height(root) >= 3
    /\ \E x \in DOMAIN nd : Contains(Cur, x) /\ x # nd[root].value
    /\ \E x \in DOMAIN nd : ~Contains(Cur, x)

\* C8: no red node has a red child.
C8_NoRedRed ==
    ~panicked =>
        \A n \in Reach(root) :
            IsRed(n) => ~IsRed(nd[n].left) /\ ~IsRed(nd[n].right)

C8_Witness ==
    /\ ~panicked
    /\ lastOp = "InsertNew"
    /\ \E n \in Reach(root) : IsRed(n) /\ nd[n].left # Nil /\ nd[n].right # Nil

\* C9: after every completed Insert or Remove the root, if present, is black.
C9_RootBlack ==
    (~panicked /\ root # Nil) => nd[root].color = black

C9_Witness ==
    /\ ~panicked
    /\ lastOp \in {"RemoveSplice", "RemoveSuccessor"}
    /\ root # Nil
    /\ nd[root].color = black
    /\ size >= 2

\* C10: the height h of the tree satisfies 2^h <= (size + 1)^2.
C10_HeightBound ==
    ~panicked => 2 ^ Height(root) <= (size + 1) * (size + 1)

\* C11: on the empty set Min and Max report found = FALSE; otherwise they
\* return the least and the greatest of the values inserted and not since
\* removed, with found = TRUE.
C11_MinMax ==
    ~panicked =>
        IF abs = {}
        THEN ~Min(Cur).found /\ ~Max(Cur).found
        ELSE /\ Min(Cur) = [value |-> CHOOSE v \in abs : \A u \in abs : v <= u,
                            found |-> TRUE]
             /\ Max(Cur) = [value |-> CHOOSE v \in abs : \A u \in abs : v >= u,
                            found |-> TRUE]

C11_Witness ==
    /\ ~panicked
    /\ Cardinality(abs) >= 4
    /\ Min(Cur).found /\ Max(Cur).found
    /\ Min(Cur).value # nd[root].value
    /\ Max(Cur).value # nd[root].value
    /\ Max(Cur).value < MaxVal

\* C12: every round trip (Inserts of the values of V into a fresh set, then
\* Removes of exactly those values) runs to its end, and at its end the set
\* is empty: root is nil, Len() is 0, All() yields nothing and Min()/Max()
\* report found = FALSE.
C12_RoundTrip ==
    /\ ~panicked
    /\ abs = {} =>
          /\ root = Nil
          /\ SetLen(Cur) = 0
          /\ All = <<>>
          /\ ~Min(Cur).found
          /\ ~Max(Cur).found

\* C13: a second Insert(x) right after an Insert(x), and a second Remove(x)
\* right after a Remove(x), leave the whole state (shape, colours, parent
\* links, size) as the first call left it.
C13_Idempotent ==
    [][\A x \in DOMAIN nd :
          /\ (Insert(x) /\ ~panicked') => InsertOp(Cur', x) = Cur'
          /\ (Remove(x) /\ ~panicked') => RemoveOp(Cur', x) = Cur']_vars

C13_Witness ==
    /\ ~panicked
    /\ lastOp = "RemoveSplice"
    /\ stat.fixupRan
    /\ size >= 3
    /\ \E x \in DOMAIN nd : ~Contains(Cur, x) /\ RemoveOp(Cur, x) = Cur
    /\ \E x \in DOMAIN nd : Contains(Cur, x) /\ InsertOp(Cur, x) = Cur

\* C14: Len, Contains, Min, Max and All change neither root nor size nor any
\* field of any node, whether the traversal is consumed to its end or stopped
\* by the consumer; what a stopped traversal has yielded is a prefix of the
\* full ascending sequence.
C14_ReadOnly ==
    [][(\/ LenCall
        \/ \E x \in ValuesQ : ContainsCall(x)
        \/ MinCall
        \/ MaxCall
        \/ \E k \in Limits : AllCall(k))
       => /\ UNCHANGED <<root, size, nd>>
          /\ lastOp' = "All" =>
                /\ Len(obs'.yielded) =
                       (IF obs'.limit < Len(All) THEN obs'.limit ELSE Len(All))
                /\ obs'.yielded = SubSeq(All, 1, Len(obs'.yielded))
                /\ obs'.exhausted <=> obs'.limit > Len(All)]_vars

C14_Witness ==
    /\ lastOp = "All"
    /\ size >= 4
    /\ ~obs.exhausted
    /\ Len(obs.yielded) >= 2
    /\ Len(obs.yielded) < size
    /\ nd[root].left # Nil

\* C15: whenever a Remove takes a black node out of the tree (the node itself
\* or its successor), deleteFixup runs before Remove returns, also when the
\* replacing position is empty.
C15_FixupAfterBlackRemoval ==
    (~panicked /\ stat.blackRemoved) => stat.fixupRan

\* C16: a single Insert calls leftRotate/rightRotate at most 2 times.
C16_InsertRotations ==
    lastOp \in {"InsertNew", "InsertPresent"} => stat.rot <= 2

C16_Witness ==
    /\ ~panicked
    /\ lastOp = "InsertNew"
    /\ stat.rot = 2

\* C17: a single Remove calls leftRotate/rightRotate at most 3 times.
C17_RemoveRotations ==
    lastOp \in {"RemoveAbsent", "RemoveSplice", "RemoveSuccessor"} => stat.rot <= 3

C17_Witness ==
    /\ ~panicked
    /\ lastOp \in {"RemoveSplice", "RemoveSuccessor"}
    /\ stat.rot = 3

\* C18: the root's parent is nil, and every non-nil child names its parent
\* in its parent field.
C18_ParentLinks ==
    ~panicked =>
        /\ root # Nil => nd[root].parent = Nil
        /\ \A n \in Reach(root) :
              /\ nd[n].left # Nil => nd[nd[n].left].parent = n
              /\ nd[n].right # Nil => nd[nd[n].right].parent = n

C18_Witness ==
    /\ ~panicked
    /\ lastOp = "RemoveSuccessor"
    /\ stat.rot >= 1
    /\ size >= 3
    /\ \E n \in Reach(root) : nd[n].parent # Nil /\ nd[nd[n].parent].parent # Nil

\* C19: no fix-up loop of Insert or Remove goes round without moving its
\* cursor nearer to the root, and a traversal consumed to its end stops
\* after yielding every node of the tree exactly once.
C19_Terminates ==
    /\ ~stat.stuck
    /\ lastOp = "All" =>
          /\ ~obs.cut
          /\ obs.limit > size =>
                /\ obs.exhausted
                /\ Len(obs.nodes) = Cardinality(Reach(root))
                /\ SeqSet(obs.nodes) = Reach(root)

C19_Witness ==
    /\ lastOp = "All"
    /\ obs.exhausted
    /\ size >= 4
    /\ stat.fixupRan
    /\ stat.moved
    /\ Len(obs.nodes) = size

\* C20: during a traversal the stack never holds more nodes than the
\* capacity it was allocated with, floor(log2((size + 2) / 5)) + 2.
C20_StackWithinCapacity ==
    lastOp = "All" => obs.maxStack <= obs.cap

====
